---- MODULE Spec2Model ----
(***************************************************************************)
(* Flash-loan front-end: the contract client (contractInteraction), the   *)
(* two submission forms, the page-level list of new transactions and the  *)
(* TransactionHistory card.                                                *)
(*                                                                         *)
(* Conventions.  A JavaScript string that the code inspects character by  *)
(* character (token addresses, asset labels, decimal amounts) is a         *)
(* sequence of one-character strings.  A bigint is the sequence of its     *)
(* decimal digits, without leading zeros.  Enumerations and opaque         *)
(* identifiers (type, status, id, hash, toast titles) are TLA+ strings.    *)
(* Timestamps (Date.now()) are not represented.                            *)
(***************************************************************************)
EXTENDS Integers, Sequences, FiniteSets, TLC

(***************************************************************************)
(* Bounds of the model.                                                    *)
(***************************************************************************)
\* Records delivered to the page (onTxAdded calls) in one behaviour.
MaxTx == 2
\* Logs in one receipt of a submitted flash loan.
MaxReceiptLogs == 1
\* Logs in one receipt given to parseFlashLoanEvents in the decoding
\* specification.
MaxLogs == 3
\* saveTransaction calls in one behaviour of the store specification.
MaxAppends == 3

(***************************************************************************)
(* String helpers (String.prototype.substring / toLowerCase).              *)
(***************************************************************************)
MinOf(a, b) == IF a <= b THEN a ELSE b

MaxOf(a, b) == IF a >= b THEN a ELSE b

MinSet(S) == CHOOSE x \in S : \A y \in S : x <= y

Clamp(i, n) == MaxOf(0, MinOf(i, n))

\* s.substring(start, end): both indices are clamped to [0, length] and
\* swapped when start > end; the result is s[start .. end-1] (0-based).
Substring(s, start, end) ==
    LET a == Clamp(start, Len(s))
        b == Clamp(end, Len(s))
    IN  SubSeq(s, MinOf(a, b) + 1, MaxOf(a, b))

LowerChar(c) ==
    CASE c = "A" -> "a" [] c = "B" -> "b" [] c = "C" -> "c"
      [] c = "D" -> "d" [] c = "E" -> "e" [] c = "F" -> "f"
      [] OTHER -> c

ToLowerCase(s) == [i \in 1..Len(s) |-> LowerChar(s[i])]

Digits == {"0", "1", "2", "3", "4", "5", "6", "7", "8", "9"}

\* The decimal digit of n, 0 <= n <= 9.
Digits10(n) == <<"0","1","2","3","4","5","6","7","8","9">>[n + 1]

Zeros(n) == [i \in 1..n |-> "0"]

AllZero(s) == \A i \in 1..Len(s) : s[i] = "0"

\* The longest prefix of s made of decimal digits.
DigitPrefixLen(s) ==
    IF \A i \in 1..Len(s) : s[i] \in Digits THEN Len(s)
    ELSE MinSet({i \in 1..Len(s) : s[i] \notin Digits}) - 1

\* A digit string without its leading zeros ("0" for a zero value).
StripLeadingZeros(s) ==
    IF AllZero(s) THEN <<"0">>
    ELSE SubSeq(s, MinSet({i \in 1..Len(s) : s[i] # "0"}), Len(s))

\* A digit string without its trailing zeros, keeping at least one digit.
StripTrailingZeros(s) ==
    IF AllZero(s) THEN <<"0">>
    ELSE SubSeq(s, 1, CHOOSE i \in 1..Len(s) :
                         s[i] # "0" /\ \A j \in (i+1)..Len(s) : s[j] = "0")

(***************************************************************************)
(* types: the static token table.                                          *)
(***************************************************************************)
ETH_ADDRESS == <<"0","x","E","e","e","e","e","E","e","e","e","E","e","E","e","e","E","e","E","e","E","e","e","E","E","E","e","e","e","e","E","e","e","e","e","e","e","e","E","E","e","E">>

WETH_ADDRESS == <<"0","x","C","0","2","a","a","A","3","9","b","2","2","3","F","E","8","D","0","A","0","e","5","C","4","F","2","7","e","A","D","9","0","8","3","C","7","5","6","C","c","2">>

USDC_ADDRESS == <<"0","x","A","0","b","8","6","9","9","1","c","6","2","1","8","b","3","6","c","1","d","1","9","D","4","a","2","e","9","E","b","0","c","E","3","6","0","6","e","B","4","8">>

DAI_ADDRESS == <<"0","x","6","B","1","7","5","4","7","4","E","8","9","0","9","4","C","4","4","D","a","9","8","b","9","5","4","E","e","d","e","A","C","4","9","5","2","7","1","d","0","F">>

USDT_ADDRESS == <<"0","x","d","A","C","1","7","F","9","5","8","D","2","e","e","5","2","3","a","2","2","0","6","2","0","6","9","9","4","5","9","7","C","1","3","D","8","3","1","e","c","7">>

\* The same WETH address as a wallet or a log may spell it (all lower case).
WETH_LOWER == <<"0","x","c","0","2","a","a","a","3","9","b","2","2","3","f","e","8","d","0","a","0","e","5","c","4","f","2","7","e","a","d","9","0","8","3","c","7","5","6","c","c","2">>

\* An address that is not in the token table.
OTHER_ADDRESS == <<"0","x","1","1","1","1","1","1","1","1","1","1","1","1","1","1","1","1","1","1","1","1","1","1","1","1","1","1","1","1","1","1","1","1","1","1","1","1","1","1","A","b">>

\* Object.entries(CommonTokens), in declaration order.
CommonTokens ==
    << [symbol |-> <<"E","T","H">>,     address |-> ETH_ADDRESS,  decimals |-> 18],
       [symbol |-> <<"W","E","T","H">>, address |-> WETH_ADDRESS, decimals |-> 18],
       [symbol |-> <<"U","S","D","C">>, address |-> USDC_ADDRESS, decimals |-> 6],
       [symbol |-> <<"D","A","I">>,     address |-> DAI_ADDRESS,  decimals |-> 18],
       [symbol |-> <<"U","S","D","T">>, address |-> USDT_ADDRESS, decimals |-> 6] >>

\* "let decimals = 18; // Default to 18 decimals"
DefaultDecimals == 18

\* token.address.toLowerCase() of every table entry.
LowerAddresses == [i \in 1..Len(CommonTokens) |-> ToLowerCase(CommonTokens[i].address)]

\* Indices of the table entries whose address equals `address`, ignoring case.
TokenMatches(address) ==
    LET lower == ToLowerCase(address)
    IN  {i \in 1..Len(CommonTokens) : LowerAddresses[i] = lower}

(***************************************************************************)
(* contractInteraction: pure helpers.                                      *)
(***************************************************************************)
\* getTokenSymbol comparing the addresses as written, without toLowerCase().
getTokenSymbol_CaseSensitive(address) ==
    LET matches == {i \in 1..Len(CommonTokens) : CommonTokens[i].address = address}
    IN  IF matches # {}
        THEN CommonTokens[MinSet(matches)].symbol
        ELSE Substring(address, 0, 6) \o <<".", ".", ".">>
               \o Substring(address, Len(address) - 4, Len(address))

\* getTokenSymbol: the symbol of the first matching entry, else
\* first 6 characters + "..." + last 4 characters of the address.
getTokenSymbol(address) ==
    LET matches == TokenMatches(address)
    IN  IF matches # {}
        THEN CommonTokens[MinSet(matches)].symbol
        ELSE Substring(address, 0, 6) \o <<".", ".", ".">>
               \o Substring(address, Len(address) - 4, Len(address))

\* The decimals loop never finding a token: always the default.
tokenDecimals_AlwaysDefault(address) == DefaultDecimals

\* The decimals loop of formatTokenAmount and of requestFlashLoan.
tokenDecimals(address) ==
    LET matches == TokenMatches(address)
    IN  IF matches # {}
        THEN CommonTokens[MinSet(matches)].decimals
        ELSE DefaultDecimals

\* A formatUnits that does not pad an amount shorter than `decimals` digits.
formatUnits_NoPad(amount, decimals) ==
    LET index == MaxOf(Len(amount) - decimals, 0)
        whole == StripLeadingZeros(SubSeq(amount, 1, index))
        frac  == StripTrailingZeros(SubSeq(amount, index + 1, Len(amount)))
    IN  IF decimals = 0 THEN amount ELSE whole \o <<".">> \o frac

\* ethers.formatUnits(amount, decimals): pad to more than `decimals` digits,
\* insert the point, trim leading zeros of the whole part and trailing zeros
\* of the fraction (one fractional digit is always kept).
formatUnits(amount, decimals) ==
    LET padded == IF Len(amount) <= decimals
                  THEN Zeros(decimals + 1 - Len(amount)) \o amount
                  ELSE amount
        index  == Len(padded) - decimals
        whole  == StripLeadingZeros(SubSeq(padded, 1, index))
        frac   == StripTrailingZeros(SubSeq(padded, index + 1, Len(padded)))
    IN  IF decimals = 0 THEN amount ELSE whole \o <<".">> \o frac

formatTokenAmount(amount, tokenAddress) ==
    formatUnits(amount, tokenDecimals(tokenAddress))

\* A parseUnits that reads the leading digits and ignores what follows,
\* the way parseFloat does.
parseUnits_Lenient(value, decimals) ==
    [threw |-> FALSE, negative |-> FALSE,
     value |-> StripLeadingZeros(SubSeq(value, 1, DigitPrefixLen(value))
                                   \o Zeros(decimals))]

\* ethers.parseUnits(value, decimals): the value must match
\* ^(-?)([0-9]*)\.?([0-9]*)$ with at least one digit, and the digits beyond
\* `decimals` fractional places must all be zero; otherwise it throws.
\* The result is the base-unit integer.
parseUnits(value, decimals) ==
    LET negative == Len(value) > 0 /\ value[1] = "-"
        body     == IF negative THEN Tail(value) ELSE value
        wlen     == DigitPrefixLen(body)
        whole    == SubSeq(body, 1, wlen)
        rest     == SubSeq(body, wlen + 1, Len(body))
        hasPoint == Len(rest) > 0 /\ rest[1] = "."
        frac     == IF hasPoint THEN Tail(rest) ELSE rest
        matches  == (\A i \in 1..Len(frac) : frac[i] \in Digits)
                    /\ (Len(rest) = 0 \/ hasPoint)
                    /\ Len(whole) + Len(frac) > 0
        padded   == IF Len(frac) < decimals
                    THEN frac \o Zeros(decimals - Len(frac)) ELSE frac
        safe     == AllZero(SubSeq(padded, decimals + 1, Len(padded)))
    IN  IF matches /\ safe
        THEN [threw |-> FALSE, negative |-> negative,
              value |-> StripLeadingZeros(whole \o SubSeq(padded, 1, decimals))]
        ELSE [threw |-> TRUE, negative |-> FALSE, value |-> <<>>]

\* The sign class of parseFloat(value): parseFloat reads the longest prefix
\* sign? digits* (. digits*)? with at least one digit (an exponent does not
\* change the sign class) and yields NaN when there is none.
parseFloatSign(value) ==
    LET signed == Len(value) > 0 /\ value[1] \in {"-", "+"}
        body   == IF signed THEN Tail(value) ELSE value
        wlen   == DigitPrefixLen(body)
        whole  == SubSeq(body, 1, wlen)
        rest   == SubSeq(body, wlen + 1, Len(body))
        frac   == IF Len(rest) > 0 /\ rest[1] = "."
                  THEN SubSeq(Tail(rest), 1, DigitPrefixLen(Tail(rest)))
                  ELSE <<>>
    IN  IF Len(whole) + Len(frac) = 0 THEN "NaN"
        ELSE IF AllZero(whole \o frac) THEN "zero"
        ELSE IF value[1] = "-" THEN "negative"
        ELSE "positive"

(***************************************************************************)
(* State.                                                                  *)
(***************************************************************************)
VARIABLES
    ethereum,         \* window.ethereum is injected by a wallet extension
    signer,           \* contractInteraction: `signer` has been assigned
    contract,         \* contractInteraction: `contract` has been assigned
    walletChain,      \* the chain the wallet is on (answer to eth_chainId)
    checking,         \* FlashLoanForm: checkNetwork calls awaiting the wallet
    networkError,     \* FlashLoanForm state
    flashLoanParams,  \* FlashLoanForm state, as of its last submit
    isLoading,        \* per form: isLoading state
    pc,               \* per form: where its handleSubmit is suspended
    pendingTx,        \* per form: the pendingTx object of the running call
    call,             \* per form: the contract call it has made
    toast,            \* per form: title of the last toast it showed
    receipt,          \* per form: the receipt its last tx.wait() returned
    parsed,           \* what the last parseFlashLoanEvents call returned
    newTransactions,  \* Index state
    transactions,     \* TransactionHistory state
    loading,          \* TransactionHistory state
    storage,          \* localStorage item STORAGE_KEY
    appended,         \* history: every saveTransaction argument, newest first
    history,          \* the last getTransactionHistory call: what was stored
                      \* then and what it returned
    walletInfo,       \* NetworkStatus state
    isConnecting,     \* NetworkStatus state
    error,            \* NetworkStatus state
    balanceRequest,   \* NetworkStatus: checkConnection awaits eth_getBalance
    lastNotification, \* history: the notification the wallet delivered last,
                      \* and whether it repeated the one before
    scaled,           \* the last requestFlashLoan parse of an amount and the
                      \* formatTokenAmount of its result
    resolved,         \* the last getTokenSymbol call and its result
    mounted,          \* per component: the mount it is in (0: not mounted)
    mounts,           \* per component: how many times it has mounted
    listeners         \* window.ethereum: the listeners of each event

vars == << ethereum, signer, contract, walletChain, checking, networkError,
           flashLoanParams, isLoading, pc, pendingTx, call, toast, receipt, parsed,
           newTransactions, transactions, loading,
           storage, appended, history,
           walletInfo, isConnecting, error, balanceRequest, lastNotification,
           scaled, resolved, mounted, mounts, listeners >>

helperVars == << scaled, resolved >>

listenerVars == << mounted, mounts, listeners >>

statusVars == << walletInfo, isConnecting, error, balanceRequest, lastNotification >>

walletVars == << ethereum, signer, contract, walletChain, checking, networkError >>

formVars == << flashLoanParams, isLoading, pc, pendingTx, call, toast, receipt, parsed >>

pageVars == << newTransactions, transactions, loading >>

storeVars == << storage, appended, history >>

Forms == {"flashloan", "withdrawal"}

NoTx == [type |-> "none"]

NoCall == [method |-> "none"]

NoReceipt == [status |-> -1, hash |-> "", logs |-> << >>]

NotLoaded == [called |-> FALSE, from |-> [present |-> FALSE, json |-> << >>],
              result |-> << >>]

NotParsed == [called |-> FALSE, threw |-> FALSE, transactions |-> << >>]

\* localStorage.getItem returns null: nothing is stored under the key.
NoItem == [present |-> FALSE, json |-> << >>]

(***************************************************************************)
(* Inputs.                                                                 *)
(***************************************************************************)
\* Values generateId() may return: Math.random() is not guaranteed to
\* return different values on different calls.
IdSet == {"k3x9a1bq", "i"}

TxHashes == {"0xabc1"}

Chains == {"0x38", "0x1"}

BSC_CHAIN_ID == "0x38"

BSC_TESTNET_CHAIN_ID == "0x61"

SUPPORTED_CHAIN_IDS == {BSC_CHAIN_ID, BSC_TESTNET_CHAIN_ID}

\* What the amount field of FlashLoanForm may hold at a submit (it is an
\* <input type="number">, but the handler accepts any string).
AmountInputs ==
    { << >>, <<"0">>, <<"-","1">>, <<"a","b","c">>, <<"1","0","a">>,
      <<"1","0",".","0">> }

\* flashLoanParams at a submit: editing the fields and submitting the form
\* are one step, whose field values are drawn here.  The asset is the
\* form's default; SpecCalls draws the other assets.
FlashLoanParamInputs ==
    { [asset |-> WETH_ADDRESS, amount |-> am] : am \in AmountInputs }

\* withdrawParams at a submit (WithdrawForm never reads them otherwise):
\* handleSwitchChange(true) stores token 'ETH', otherwise the token is a
\* selected or typed address.
WithdrawParamInputs ==
    { [isEth |-> TRUE, token |-> <<"E","T","H">>],
      [isEth |-> FALSE, token |-> OTHER_ADDRESS] }

\* Base-unit amounts carried by event logs.
TenEther == <<"1","0">> \o Zeros(18)

SomeUSDC == <<"2","5","0","0","0">> \o Zeros(6)

EventLog(name, args) == [kind |-> "event", name |-> name, args |-> args]

\* A log of another contract: parseLog finds no fragment and returns null.
UnrecognizedLog == [kind |-> "unrecognized", name |-> "", args |-> << >>]

\* A log whose topic matches but whose data does not decode: parseLog throws.
MalformedLog == [kind |-> "malformed", name |-> "", args |-> << >>]

LogInputs ==
    { UnrecognizedLog, MalformedLog,
      EventLog("FlashLoanInitiated", <<WETH_ADDRESS, TenEther>>),
      EventLog("SwapExecuted", <<WETH_LOWER, USDC_ADDRESS, TenEther, SomeUSDC>>),
      EventLog("FlashLoanRepaid", <<OTHER_ADDRESS, TenEther, <<"9">> >>) }

\* The logs drawn for the receipts of the application's own submissions.
ReceiptLogInputs ==
    { UnrecognizedLog, MalformedLog,
      EventLog("FlashLoanInitiated", <<WETH_ADDRESS, TenEther>>) }

SeqsUpTo(S, n) == UNION {[1..k -> S] : k \in 0..n}

(***************************************************************************)
(* contractInteraction: event decoding.                                    *)
(***************************************************************************)
\* One iteration of the loop over receipt.logs.  `id` is what generateId()
\* returns if this iteration calls it.
parseLogStep(acc, log, id, hash) ==
    IF log.kind = "malformed" THEN acc          \* parseLog throws: caught, logged
    ELSE IF log.kind = "unrecognized" THEN acc  \* parseLog returns null: continue
    ELSE IF log.name = "FlashLoanInitiated" THEN
        Append(acc, [id |-> id, type |-> "flashloan",
                     asset |-> getTokenSymbol(log.args[1]),
                     amount |-> formatTokenAmount(log.args[2], log.args[1]),
                     status |-> "success", hash |-> hash])
    ELSE IF log.name = "SwapExecuted" THEN
        Append(acc, [id |-> id, type |-> "swap",
                     asset |-> getTokenSymbol(log.args[1])
                                 \o <<" ", "→", " ">>
                                 \o getTokenSymbol(log.args[2]),
                     amount |-> formatTokenAmount(log.args[3], log.args[1]),
                     status |-> "success", hash |-> hash])
    ELSE IF log.name = "FlashLoanRepaid" THEN
        Append(acc, [id |-> id, type |-> "repay",
                     asset |-> getTokenSymbol(log.args[1]),
                     amount |-> formatTokenAmount(log.args[2], log.args[1]),
                     status |-> "success", hash |-> hash])
    ELSE acc

RECURSIVE parseLogs(_, _, _, _)
parseLogs(logs, ids, hash, acc) ==
    IF logs = << >> THEN acc
    ELSE parseLogs(Tail(logs), Tail(ids), hash,
                   parseLogStep(acc, Head(logs), Head(ids), hash))

\* parseFlashLoanEvents with the try/catch around the whole loop: the first
\* log that fails to decode ends the loop.
parseFlashLoanEvents_CatchOutsideLoop(rcpt, ids) ==
    LET bad  == {i \in 1..Len(rcpt.logs) : rcpt.logs[i].kind = "malformed"}
        upto == IF bad = {} THEN Len(rcpt.logs) ELSE MinSet(bad) - 1
    IN  [called |-> TRUE, threw |-> FALSE,
         transactions |-> parseLogs(SubSeq(rcpt.logs, 1, upto),
                                    SubSeq(ids, 1, upto), rcpt.hash, << >>)]

\* parseFlashLoanEvents without any try/catch: a log that fails to decode
\* makes the call throw.
parseFlashLoanEvents_NoCatch(rcpt, ids) ==
    [called |-> TRUE,
     threw |-> \E i \in 1..Len(rcpt.logs) : rcpt.logs[i].kind = "malformed",
     transactions |-> parseLogs(rcpt.logs, ids, rcpt.hash, << >>)]

\* parseFlashLoanEvents(receipt): `threw` tells whether the call ended by an
\* exception instead of returning `transactions`.
parseFlashLoanEvents(rcpt, ids) ==
    [called |-> TRUE, threw |-> FALSE,
     transactions |-> IF ~contract THEN << >>
                      ELSE parseLogs(rcpt.logs, ids, rcpt.hash, << >>)]

(***************************************************************************)
(* contractInteraction: the history store.                                 *)
(***************************************************************************)
\* "transactions.slice(0, 50)); // Keep last 50"
KeepLast == 50

\* Array.prototype.slice(0, n).
Slice(s, n) == SubSeq(s, 1, MinOf(n, Len(s)))

DemoTransactions ==
    << [id |-> "demo1", type |-> "flashloan", asset |-> <<"W","E","T","H">>,
        amount |-> <<"1","0",".","0">>, status |-> "success",
        hash |-> "0x1234567890abcdef1234567890abcdef1234567890abcdef1234567890abcdef"],
       [id |-> "demo2", type |-> "swap",
        asset |-> <<"W","E","T","H"," ","→"," ","U","S","D","C">>,
        amount |-> <<"1","0",".","0">>, status |-> "success",
        hash |-> "0x2345678901abcdef1234567890abcdef1234567890abcdef1234567890abcdef"],
       [id |-> "demo3", type |-> "withdrawal", asset |-> <<"W","E","T","H">>,
        amount |-> <<"0",".","5">>, status |-> "success",
        hash |-> "0x3456789012abcdef1234567890abcdef1234567890abcdef1234567890abcdef"] >>

\* The ids of the demo records.
DemoIds == {DemoTransactions[i].id : i \in 1..Len(DemoTransactions)}

\* saveTransaction reading the earlier list as getTransactionHistory does:
\* the demo records when nothing is stored.
saveTransaction_SeedFromDemo(item, tx) ==
    LET stored == IF item.present THEN item.json ELSE DemoTransactions
    IN  [present |-> TRUE, json |-> Slice(<<tx>> \o stored, KeepLast)]

\* saveTransaction with `push` in place of `unshift`.
saveTransaction_Push(item, tx) ==
    LET stored == IF item.present THEN item.json ELSE << >>
    IN  [present |-> TRUE, json |-> Slice(stored \o <<tx>>, KeepLast)]

\* saveTransaction(tx): the item stored under STORAGE_KEY afterwards.  The
\* item is the JSON text of an array of records; every field of a record of
\* the model is a defined string, so JSON.parse gives back what
\* JSON.stringify was given.
saveTransaction(item, tx) ==
    LET stored == IF item.present THEN item.json ELSE << >>
    IN  [present |-> TRUE, json |-> Slice(<<tx>> \o stored, KeepLast)]

\* getTransactionHistory seeding the demo records for an empty stored list too.
getTransactionHistory_SeedEmptyList(item) ==
    IF ~item.present \/ item.json = << >> THEN DemoTransactions ELSE item.json

\* getTransactionHistory(): the demo records when nothing is stored.
getTransactionHistory(item) ==
    IF ~item.present THEN DemoTransactions ELSE item.json

(***************************************************************************)
(* contractInteraction: the synchronous part of the two submissions, up    *)
(* to the awaited contract call.                                           *)
(***************************************************************************)
Thrown == [threw |-> TRUE, pendingTx |-> NoTx, call |-> NoCall]

\* requestFlashLoan without its "Contract not initialized" check.
requestFlashLoanStart_NoContractCheck(params, id) ==
    LET tx  == [id |-> id, type |-> "flashloan",
                asset |-> getTokenSymbol(params.asset),
                amount |-> params.amount, status |-> "pending"]
        amountBigInt == parseUnits(params.amount, tokenDecimals(params.asset))
    IN  IF amountBigInt.threw THEN Thrown
        ELSE [threw |-> FALSE, pendingTx |-> tx,
              call |-> [method |-> "requestFlashLoan", asset |-> params.asset,
                        negative |-> amountBigInt.negative,
                        amount |-> amountBigInt.value]]

requestFlashLoanStart(params, id) ==
    IF ~contract THEN Thrown                \* "Contract not initialized"
    ELSE LET tx  == [id |-> id, type |-> "flashloan",
                     asset |-> getTokenSymbol(params.asset),
                     amount |-> params.amount, status |-> "pending"]
             amountBigInt == parseUnits(params.amount, tokenDecimals(params.asset))
         IN  IF amountBigInt.threw THEN Thrown
             ELSE [threw |-> FALSE, pendingTx |-> tx,
                   call |-> [method |-> "requestFlashLoan", asset |-> params.asset,
                             negative |-> amountBigInt.negative,
                             amount |-> amountBigInt.value]]

\* withdrawToken calling contract.withdrawToken(params.token) whatever isEth is.
withdrawTokenStart_AlwaysToken(params, id) ==
    IF ~contract THEN Thrown
    ELSE [threw |-> FALSE,
          pendingTx |-> [id |-> id, type |-> "withdrawal",
                         asset |-> IF params.isEth THEN <<"E","T","H">>
                                   ELSE getTokenSymbol(params.token),
                         status |-> "pending"],
          call |-> [method |-> "withdrawToken", token |-> params.token]]

withdrawTokenStart(params, id) ==
    IF ~contract THEN Thrown                \* "Contract not initialized"
    ELSE [threw |-> FALSE,
          pendingTx |-> [id |-> id, type |-> "withdrawal",
                         asset |-> IF params.isEth THEN <<"E","T","H">>
                                   ELSE getTokenSymbol(params.token),
                         status |-> "pending"],
          call |-> IF params.isEth
                   THEN [method |-> "withdrawETH"]
                   ELSE [method |-> "withdrawToken", token |-> params.token]]

\* Setting the hash and marking the record successful as soon as the call is
\* accepted.
setHash_MarkSuccess(tx, hash) == [tx EXCEPT !.status = "success"] @@ [hash |-> hash]

\* "pendingTx.hash = tx.hash"
setHash(tx, hash) == tx @@ [hash |-> hash]

\* Marking the record successful whatever the receipt reports.
setStatus_AlwaysSuccess(tx, rcpt) == [tx EXCEPT !.status = "success"]

\* "Update status based on receipt"
setStatus(tx, rcpt) ==
    [tx EXCEPT !.status = IF rcpt.status = 1 THEN "success" ELSE "failed"]

(***************************************************************************)
(* Index and TransactionHistory.                                           *)
(***************************************************************************)
\* handleTxAdded replacing the list: setNewTransactions([tx]).
handleTxAdded_Replace(prev, tx) == <<tx>>

\* Index.handleTxAdded: setNewTransactions(prev => [tx, ...prev]).
handleTxAdded(prev, tx) == <<tx>> \o prev

\* An effect on [newTransactions] that never runs its update.
mergeNewTransactions_Skip(newTxs, prev) == prev

\* TransactionHistory effect on [newTransactions]:
\* setTransactions(prev => [...newTransactions, ...prev]) when non-empty.
mergeNewTransactions(newTxs, prev) ==
    IF Len(newTxs) > 0 THEN newTxs \o prev ELSE prev

(***************************************************************************)
(* NetworkStatus: the wallet status widget.                                *)
(***************************************************************************)
NETWORKS ==
    << [id |-> <<"1">>, name |-> "Ethereum", hexId |-> <<"0","x","1">>,
        color |-> "bg-blue-500"],
       [id |-> <<"5","6">>, name |-> "BNB Chain", hexId |-> <<"0","x","3","8">>,
        color |-> "bg-yellow-500"],
       [id |-> <<"1","3","7">>, name |-> "Polygon", hexId |-> <<"0","x","8","9">>,
        color |-> "bg-purple-500"],
       [id |-> <<"4","2","1","6","1">>, name |-> "Arbitrum",
        hexId |-> <<"0","x","a","4","b","1">>, color |-> "bg-blue-700"],
       [id |-> <<"1","0">>, name |-> "Optimism", hexId |-> <<"0","x","a">>,
        color |-> "bg-red-500"] >>

\* getNetworkInfo(chainId): the first network whose id or hexId is chainId.
getNetworkInfo(chainId) ==
    LET found == {i \in 1..Len(NETWORKS) :
                     NETWORKS[i].id = chainId \/ NETWORKS[i].hexId = chainId}
    IN  IF found # {}
        THEN [name |-> NETWORKS[MinSet(found)].name,
              color |-> NETWORKS[MinSet(found)].color]
        ELSE [name |-> "Unknown Network", color |-> "bg-gray-500"]

HexDigits ==
    << "0","1","2","3","4","5","6","7","8","9","a","b","c","d","e","f" >>

\* The value of a hexadecimal digit, in either case; -1 for another character.
HexValue(c) ==
    LET lower == {i \in 1..16 : HexDigits[i] = LowerChar(c)}
    IN  IF lower = {} THEN -1 ELSE MinSet(lower) - 1

RECURSIVE HexToInt(_, _)
HexToInt(s, acc) ==
    IF s = << >> \/ HexValue(Head(s)) < 0 THEN acc
    ELSE HexToInt(Tail(s), 16 * acc + HexValue(Head(s)))

RECURSIVE IntToString(_)
\* Number.prototype.toString() of a non-negative integer.
IntToString(n) ==
    IF n < 10 THEN <<Digits10(n)>>
    ELSE IntToString(n \div 10) \o <<Digits10(n % 10)>>

\* chainId.startsWith('0x')
StartsWith0x(s) == Len(s) >= 2 /\ s[1] = "0" /\ s[2] = "x"

\* "Parse chainId to decimal if it's hex":
\* chainId.startsWith('0x') ? parseInt(chainId, 16).toString() : chainId
decimalChainId(chainId) ==
    IF ~StartsWith0x(chainId) THEN chainId
    ELSE IF Len(chainId) < 3 \/ HexValue(chainId[3]) < 0 THEN <<"N","a","N">>
    ELSE IntToString(HexToInt(SubSeq(chainId, 3, Len(chainId)), 0))

\* The walletInfo of a disconnected wallet: the initial state, and what
\* handleDisconnect and an empty accountsChanged set.
Disconnected ==
    [isConnected |-> FALSE, address |-> "", chainId |-> << >>, balance |-> "0",
     network |-> [name |-> "Unknown", color |-> "bg-gray-500"]]

\* walletInfo as checkConnection and handleConnect set it.
Connected(address, chainId, balance) ==
    [isConnected |-> TRUE, address |-> address,
     chainId |-> decimalChainId(chainId), balance |-> balance,
     network |-> getNetworkInfo(chainId)]

\* An accountsChanged listener that starts from a fresh walletInfo for the
\* account it is given.
accountsChanged_Reset(prev, accounts) ==
    IF Len(accounts) = 0 THEN Disconnected
    ELSE [Disconnected EXCEPT !.isConnected = TRUE, !.address = accounts[1]]

\* The accountsChanged listener: the walletInfo it sets.
accountsChanged(prev, accounts) ==
    IF Len(accounts) = 0 THEN Disconnected
    ELSE [prev EXCEPT !.isConnected = TRUE, !.address = accounts[1]]

\* The chainChanged listener: the walletInfo it sets.
chainChanged(prev, chainId) ==
    [prev EXCEPT !.chainId = decimalChainId(chainId),
                 !.network = getNetworkInfo(chainId)]

\* (parseInt(balance, 16) / 1e18).toFixed(4) for a balance below 5 * 10^13
\* wei, which is every balance drawn here.
formatBalance(balance) == "0.0000"

NoNotification == [kind |-> "none", arg |-> << >>, twice |-> FALSE]

\* NetworkStatus before it has mounted on a page without a connected wallet.
InitStatus ==
    /\ walletInfo = Disconnected
    /\ isConnecting = FALSE
    /\ error = ""
    /\ balanceRequest = FALSE
    /\ lastNotification = NoNotification

(***************************************************************************)
(* window.ethereum as an event emitter, and the components that register   *)
(* listeners on it.                                                        *)
(***************************************************************************)
Components == {"FlashLoanForm", "NetworkStatus"}

Events == {"chainChanged", "accountsChanged"}

\* A function value created during mount `gen` of `component`: two
\* listeners are the same function only if all three fields agree.
Listener(component, fn, gen) == [component |-> component, fn |-> fn, gen |-> gen]

\* ethereum.on(event, listener)
on(ls, event, listener) == [ls EXCEPT ![event] = Append(@, listener)]

\* ethereum.removeListener(event, listener): removes the most recently
\* added registration of that very function, if there is one.
removeListener(ls, event, listener) ==
    LET at == {i \in 1..Len(ls[event]) : ls[event][i] = listener}
    IN  IF at = {} THEN ls
        ELSE LET last == CHOOSE i \in at : \A j \in at : j <= i
             IN  [ls EXCEPT ![event] =
                     SubSeq(@, 1, last - 1) \o SubSeq(@, last + 1, Len(@))]

\* ethereum.removeAllListeners(event)
removeAllListeners(ls, event) == [ls EXCEPT ![event] = << >>]

NoListeners == [e \in Events |-> << >>]

\* FlashLoanForm's effect registers "() => { checkNetwork(); }".
FormArrow(gen) == Listener("FlashLoanForm", "() => checkNetwork()", gen)

\* What FlashLoanForm's cleanup passes to removeListener: checkNetwork.
FormCheckNetwork(gen) == Listener("FlashLoanForm", "checkNetwork", gen)

\* The two listeners NetworkStatus' effect registers.
StatusListener(event, gen) == Listener("NetworkStatus", event, gen)

\* NetworkStatus' effect body after checkConnection().
registerStatusListeners(ls, gen) ==
    on(on(ls, "accountsChanged", StatusListener("accountsChanged", gen)),
       "chainChanged", StatusListener("chainChanged", gen))

\* The page after its first render: NetworkStatus' effect ran, then
\* FlashLoanForm's.
InitPageMounted ==
    /\ mounted = [c \in Components |-> 1]
    /\ mounts = [c \in Components |-> 1]
    /\ listeners = IF ethereum
                   THEN on(registerStatusListeners(NoListeners, 1),
                           "chainChanged", FormArrow(1))
                   ELSE NoListeners

NotScaled == [called |-> FALSE]

NotResolved == [called |-> FALSE]

\* No helper has been applied on its own.
InitHelpers ==
    /\ scaled = NotScaled
    /\ resolved = NotResolved

(***************************************************************************)
(* Initial state: the page has mounted; TransactionHistory's load and      *)
(* FlashLoanForm's first checkNetwork are under way.                       *)
(***************************************************************************)
InitApp ==
    /\ ethereum \in BOOLEAN
    /\ signer = FALSE
    /\ contract = FALSE
    /\ walletChain \in Chains
    /\ checking = IF ethereum THEN 1 ELSE 0
    /\ networkError = IF ethereum THEN "null" ELSE "No Ethereum wallet detected"
    /\ flashLoanParams = [asset |-> WETH_ADDRESS, amount |-> << >>]
    /\ isLoading = [f \in Forms |-> FALSE]
    /\ pc = [f \in Forms |-> "idle"]
    /\ pendingTx = [f \in Forms |-> NoTx]
    /\ call = [f \in Forms |-> NoCall]
    /\ toast = [f \in Forms |-> "none"]
    /\ receipt = [f \in Forms |-> NoReceipt]
    /\ parsed = NotParsed
    /\ newTransactions = << >>
    /\ transactions = << >>
    /\ loading = TRUE

\* Nothing in the application writes the storage item (saveTransaction has
\* no caller), so the application always starts with nothing stored.
Init ==
    /\ InitApp
    /\ storage = NoItem
    /\ appended = [before |-> << >>, txs |-> << >>]
    /\ history = NotLoaded
    /\ InitStatus
    /\ InitHelpers
    /\ InitPageMounted

(***************************************************************************)
(* Wallet and contract binding.                                            *)
(***************************************************************************)
\* connectWallet(): without window.ethereum it throws and assigns nothing.
ConnectWallet ==
    /\ ~loading
    /\ ethereum /\ ~signer
    /\ signer' = TRUE
    /\ UNCHANGED << ethereum, contract, walletChain, checking, networkError >>
    /\ UNCHANGED << formVars, pageVars, storeVars, statusVars, helperVars, listenerVars >>

\* initializeContract(address): connects first when there is no signer.
InitializeContract ==
    /\ ~loading
    /\ ethereum /\ ~contract
    /\ signer' = TRUE
    /\ contract' = TRUE
    /\ UNCHANGED << ethereum, walletChain, checking, networkError >>
    /\ UNCHANGED << formVars, pageVars, storeVars, statusVars, helperVars, listenerVars >>

\* checkNetwork resumes with the wallet's answer (ok) or in its catch.
CheckNetworkSettles(ok) ==
    /\ ~loading
    /\ checking > 0
    /\ checking' = checking - 1
    /\ networkError' =
          IF ~ok THEN "Unable to detect current network"
          ELSE IF walletChain \notin SUPPORTED_CHAIN_IDS
               THEN "Please connect to Binance Smart Chain to use this feature"
               ELSE "null"
    /\ UNCHANGED << ethereum, signer, contract, walletChain >>
    /\ UNCHANGED << formVars, pageVars, storeVars, statusVars, helperVars, listenerVars >>

(***************************************************************************)
(* TransactionHistory: the mount effect's fetchTransactions resumes.  It   *)
(* awaits an already-settled promise, so it runs before any other event.   *)
(***************************************************************************)
LoadHistory ==
    /\ loading
    /\ transactions' = getTransactionHistory(storage)
    /\ loading' = FALSE
    /\ UNCHANGED << newTransactions, walletVars, statusVars, helperVars, listenerVars, formVars, storeVars >>

(***************************************************************************)
(* Submissions.                                                            *)
(***************************************************************************)
FailedTitle(f) == IF f = "flashloan" THEN "Flash Loan Failed" ELSE "Withdrawal Failed"

RequestedTitle(f) ==
    IF f = "flashloan" THEN "Flash Loan Requested" ELSE "Withdrawal Requested"

\* Submissions still running.
InFlight == {f \in Forms : pc[f] # "idle"}

\* The bound on the records one behaviour delivers.
MaySubmit == Len(newTransactions) + Cardinality(InFlight) < MaxTx

\* A handleSubmit without its finally block: a throw leaves isLoading set.
FormCatch_NoFinally(f) ==
    /\ toast' = [toast EXCEPT ![f] = FailedTitle(f)]
    /\ isLoading' = isLoading
    /\ pc' = [pc EXCEPT ![f] = "idle"]
    /\ pendingTx' = [pendingTx EXCEPT ![f] = NoTx]
    /\ call' = [call EXCEPT ![f] = NoCall]

\* A catch that leaves the record of the failed call in place.
FormCatch_KeepRecord(f) ==
    /\ toast' = [toast EXCEPT ![f] = FailedTitle(f)]
    /\ isLoading' = [isLoading EXCEPT ![f] = FALSE]
    /\ pc' = [pc EXCEPT ![f] = "idle"]
    /\ pendingTx' = pendingTx
    /\ call' = [call EXCEPT ![f] = NoCall]

\* handleSubmit's catch and finally after the contract operation threw: the
\* pendingTx object of the call is unreachable from then on.
FormCatch(f) ==
    /\ toast' = [toast EXCEPT ![f] = FailedTitle(f)]
    /\ isLoading' = [isLoading EXCEPT ![f] = FALSE]
    /\ pc' = [pc EXCEPT ![f] = "idle"]
    /\ pendingTx' = [pendingTx EXCEPT ![f] = NoTx]
    /\ call' = [call EXCEPT ![f] = NoCall]

\* handleSubmit continues into the contract operation, which is suspended
\* at its awaited contract call.
FormAwaitCall(f, started) ==
    /\ isLoading' = [isLoading EXCEPT ![f] = TRUE]
    /\ pc' = [pc EXCEPT ![f] = "submitting"]
    /\ pendingTx' = [pendingTx EXCEPT ![f] = started.pendingTx]
    /\ call' = [call EXCEPT ![f] = started.call]
    /\ toast' = toast

\* FlashLoanForm.handleSubmit with the fields holding `params`, started by
\* the submit button (disabled while isLoading or networkError), up to the
\* first suspension.
HandleSubmitFlashLoan(params, id) ==
    /\ ~loading
    /\ MaySubmit
    /\ ~isLoading["flashloan"] /\ networkError = "null"
    /\ flashLoanParams' = params
    /\ receipt' = [receipt EXCEPT !["flashloan"] = NoReceipt]
    /\ parsed' = NotParsed
    /\ IF networkError # "null"
       THEN /\ toast' = [toast EXCEPT !["flashloan"] = "Network Error"]
            /\ UNCHANGED << isLoading, pc, pendingTx, call >>
       ELSE IF \/ params.amount = << >>
               \/ parseFloatSign(params.amount) \in {"zero", "negative"}
       THEN /\ toast' = [toast EXCEPT !["flashloan"] = "Invalid amount"]
            /\ UNCHANGED << isLoading, pc, pendingTx, call >>
       ELSE LET started == requestFlashLoanStart(params, id)
            IN  IF started.threw THEN FormCatch("flashloan")
                ELSE FormAwaitCall("flashloan", started)
    /\ UNCHANGED << walletVars, statusVars, helperVars, listenerVars, pageVars, storeVars >>

\* WithdrawForm.handleSubmit, started by the submit button (disabled while
\* isLoading), up to the first suspension.
HandleSubmitWithdraw(params, id) ==
    /\ ~loading
    /\ MaySubmit
    /\ ~isLoading["withdrawal"]
    /\ receipt' = [receipt EXCEPT !["withdrawal"] = NoReceipt]
    /\ LET started == withdrawTokenStart(params, id)
       IN  IF started.threw THEN FormCatch("withdrawal")
           ELSE FormAwaitCall("withdrawal", started)
    /\ UNCHANGED << flashLoanParams, parsed, walletVars, statusVars, helperVars, listenerVars, pageVars, storeVars >>

\* The awaited contract call rejects (the user refuses to sign, the
\* arguments do not encode, the node refuses the transaction).
ContractCallRejected(f) ==
    /\ pc[f] = "submitting"
    /\ FormCatch(f)
    /\ UNCHANGED << flashLoanParams, receipt, parsed, walletVars, statusVars, helperVars, listenerVars, pageVars,
                    storeVars >>

\* The call is accepted: "pendingTx.hash = tx.hash", then await tx.wait().
ContractCallAccepted(f, hash) ==
    /\ pc[f] = "submitting"
    /\ pendingTx' = [pendingTx EXCEPT ![f] = setHash(pendingTx[f], hash)]
    /\ pc' = [pc EXCEPT ![f] = "waiting"]
    /\ UNCHANGED << flashLoanParams, isLoading, call, toast, receipt, parsed,
                    walletVars, statusVars, helperVars, listenerVars, pageVars, storeVars >>

\* tx.wait() rejects.
WaitFails(f) ==
    /\ pc[f] = "waiting"
    /\ FormCatch(f)
    /\ UNCHANGED << flashLoanParams, receipt, parsed, walletVars, statusVars, helperVars, listenerVars, pageVars,
                    storeVars >>

\* The logs a receipt of form f's transaction may carry.  withdrawToken does
\* not read them, and requestFlashLoan reads them only when the status is 1
\* (a reverted transaction emits no logs).
ReceiptLogs(f, st) ==
    IF f = "flashloan" /\ st = 1
    THEN SeqsUpTo(ReceiptLogInputs, MaxReceiptLogs) ELSE {<< >>}

\* What generateId() may return during the loop over `logs`: one value per
\* log; the value at a log that is no event is never read.
GeneratedIds(logs) ==
    {ids \in [1..Len(logs) -> IdSet] :
        \A i \in 1..Len(logs) :
            logs[i].kind # "event" => ids[i] = CHOOSE id \in IdSet : TRUE}

\* tx.wait() returns a receipt with status `st` and logs `logs`: the rest of
\* requestFlashLoan / withdrawToken and then the rest of handleSubmit
\* (toast, onTxAdded, clearing the amount field, finally).  `ids` are the
\* values generateId() returns inside parseFlashLoanEvents.
ReceiptArrives(f, st, logs, ids) ==
    /\ pc[f] = "waiting"
    /\ LET rcpt   == [status |-> st, hash |-> pendingTx[f].hash, logs |-> logs]
           tx     == setStatus(pendingTx[f], rcpt)
           decode == f = "flashloan" /\ rcpt.status = 1
           result == IF decode THEN parseFlashLoanEvents(rcpt, ids) ELSE NotParsed
       IN  /\ receipt' = [receipt EXCEPT ![f] = rcpt]
           /\ parsed' = IF decode THEN result ELSE parsed
           /\ IF result.threw
              THEN /\ FormCatch(f)
                   /\ UNCHANGED << flashLoanParams, pageVars >>
              ELSE /\ toast' = [toast EXCEPT ![f] = RequestedTitle(f)]
                   /\ newTransactions' = handleTxAdded(newTransactions, tx)
                   /\ transactions' =
                         mergeNewTransactions(newTransactions', transactions)
                   /\ flashLoanParams' =
                         IF f = "flashloan"
                         THEN [flashLoanParams EXCEPT !.amount = << >>]
                         ELSE flashLoanParams
                   /\ isLoading' = [isLoading EXCEPT ![f] = FALSE]
                   /\ pc' = [pc EXCEPT ![f] = "idle"]
                   /\ pendingTx' = [pendingTx EXCEPT ![f] = NoTx]
                   /\ call' = [call EXCEPT ![f] = NoCall]
                   /\ loading' = loading
    /\ UNCHANGED << walletVars, statusVars, helperVars, listenerVars, storeVars >>

\* The wallet does not change chain in this specification: chain changes
\* only gate when FlashLoanForm may submit, and here it may at any time.
Next ==
    \/ LoadHistory
    \/ ConnectWallet
    \/ InitializeContract
    \/ \E ok \in BOOLEAN : CheckNetworkSettles(ok)
    \/ \E params \in FlashLoanParamInputs, id \in IdSet :
          HandleSubmitFlashLoan(params, id)
    \/ \E params \in WithdrawParamInputs, id \in IdSet :
          HandleSubmitWithdraw(params, id)
    \/ \E f \in Forms : ContractCallRejected(f)
    \/ \E f \in Forms, h \in TxHashes : ContractCallAccepted(f, h)
    \/ \E f \in Forms : WaitFails(f)
    \/ \E f \in Forms, st \in {0, 1} : \E logs \in ReceiptLogs(f, st) :
          \E ids \in GeneratedIds(logs) : ReceiptArrives(f, st, logs, ids)

Spec == Init /\ [][Next]_vars

(***************************************************************************)
(* The history store on its own: saveTransaction and getTransactionHistory *)
(* applied, in any order, to a stored item as saveTransaction leaves it    *)
(* (at most KeepLast records) or to no item.                               *)
(***************************************************************************)
SymWETH == <<"W","E","T","H">>

SymETH == <<"E","T","H">>

\* A list of n previously stored records with distinct ids.
PersistedList(n) ==
    [i \in 1..n |-> [id |-> "old" \o ToString(i), type |-> "swap",
                     asset |-> SymWETH, amount |-> <<"1",".","0">>,
                     status |-> "success", hash |-> "0xold"]]

PersistedInputs ==
    {NoItem} \cup
    {[present |-> TRUE, json |-> PersistedList(n)] :
        n \in {0, 1, KeepLast - 1, KeepLast}}

\* Records handed to saveTransaction.
StoreTxInputs ==
    {[id |-> id, type |-> "flashloan", asset |-> SymWETH,
      amount |-> <<"1","0",".","0">>, status |-> "success", hash |-> h] :
        id \in IdSet, h \in TxHashes}
    \cup
    {[id |-> id, type |-> "withdrawal", asset |-> SymETH,
      status |-> "failed", hash |-> h] : id \in IdSet, h \in TxHashes}

InitStore ==
    /\ InitApp
    /\ storage \in PersistedInputs
    /\ appended = [before |-> IF storage.present THEN storage.json ELSE << >>,
                   txs |-> << >>]
    /\ history = NotLoaded
    /\ InitStatus
    /\ InitHelpers
    /\ InitPageMounted

SaveTransactionCall(tx) ==
    /\ Len(appended.txs) < MaxAppends
    /\ storage' = saveTransaction(storage, tx)
    /\ appended' = [appended EXCEPT !.txs = <<tx>> \o @]
    /\ UNCHANGED << history, walletVars, statusVars, helperVars, listenerVars, formVars, pageVars >>

GetTransactionHistoryCall ==
    /\ history' = [called |-> TRUE, from |-> storage,
                   result |-> getTransactionHistory(storage)]
    /\ UNCHANGED << storage, appended, walletVars, statusVars, helperVars, listenerVars, formVars, pageVars >>

NextStore ==
    \/ \E tx \in StoreTxInputs : SaveTransactionCall(tx)
    \/ GetTransactionHistoryCall

SpecStore == InitStore /\ [][NextStore]_vars

(***************************************************************************)
(* Event decoding on its own: parseFlashLoanEvents applied to any receipt  *)
(* of up to MaxLogs logs, with the contract bound.                         *)
(***************************************************************************)
InitDecode ==
    /\ ethereum = TRUE /\ signer = TRUE /\ contract = TRUE
    /\ walletChain = BSC_CHAIN_ID /\ checking = 0 /\ networkError = "null"
    /\ flashLoanParams = [asset |-> WETH_ADDRESS, amount |-> <<"1","0",".","0">>]
    /\ isLoading = [f \in Forms |-> f = "flashloan"]
    /\ pc = [f \in Forms |-> IF f = "flashloan" THEN "waiting" ELSE "idle"]
    /\ \E id \in IdSet, h \in TxHashes :
          /\ pendingTx = [f \in Forms |->
                IF f = "flashloan"
                THEN setHash(requestFlashLoanStart(flashLoanParams, id).pendingTx, h)
                ELSE NoTx]
          /\ call = [f \in Forms |->
                IF f = "flashloan"
                THEN requestFlashLoanStart(flashLoanParams, id).call ELSE NoCall]
          /\ \E logs \in SeqsUpTo(LogInputs, MaxLogs) :
                receipt = [f \in Forms |->
                   IF f = "flashloan"
                   THEN [status |-> 1, hash |-> h, logs |-> logs] ELSE NoReceipt]
    /\ toast = [f \in Forms |-> "none"]
    /\ parsed = NotParsed
    /\ newTransactions = << >>
    /\ transactions = DemoTransactions
    /\ loading = FALSE
    /\ storage = NoItem
    /\ appended = [before |-> << >>, txs |-> << >>]
    /\ history = NotLoaded
    /\ InitStatus
    /\ InitHelpers
    /\ InitPageMounted

\* requestFlashLoan's call "parseFlashLoanEvents(receipt)".
ParseFlashLoanEventsCall(ids) ==
    /\ ~parsed.called
    /\ parsed' = parseFlashLoanEvents(receipt["flashloan"], ids)
    /\ UNCHANGED << flashLoanParams, isLoading, pc, pendingTx, call, toast,
                    receipt, walletVars, statusVars, helperVars, listenerVars, pageVars, storeVars >>

NextDecode ==
    \E ids \in GeneratedIds(receipt["flashloan"].logs) : ParseFlashLoanEventsCall(ids)

SpecDecode == InitDecode /\ [][NextDecode]_vars

(***************************************************************************)
(* NetworkStatus on its own: the widget mounts, the user connects and      *)
(* disconnects, and the wallet delivers accountsChanged and chainChanged   *)
(* notifications, any of them any number of times.                         *)
(***************************************************************************)
AccountInputs == {"0xA11ce", "0xB0b"}

\* The accounts arrays accountsChanged may carry.
AccountsInputs == {<< >>} \cup {<<a>> : a \in AccountInputs}

\* The chain ids the wallet may report: BNB Chain, Ethereum, and a chain
\* that is not in NETWORKS.
ChainIdInputs == { <<"0","x","3","8">>, <<"0","x","1">>, <<"0","x","6","1">> }

\* eth_getBalance answers, in wei.
BalanceInputs == { <<"0","x","0">>, <<"0","x","2","7","1","0">> }

\* The effect's checkConnection up to its await: with a wallet that already
\* exposes an account, walletInfo is set from it and the balance is requested.
InitNetworkStatus ==
    /\ InitApp
    /\ InitHelpers
    /\ InitPageMounted
    /\ storage = NoItem
    /\ appended = [before |-> << >>, txs |-> << >>]
    /\ history = NotLoaded
    /\ isConnecting = FALSE
    /\ error = ""
    /\ lastNotification = NoNotification
    /\ \/ /\ walletInfo = Disconnected
          /\ balanceRequest = FALSE
       \/ /\ ethereum
          /\ \E a \in AccountInputs, c \in ChainIdInputs :
                walletInfo = Connected(a, c, "0")
          /\ balanceRequest = TRUE

Notified(kind, arg) ==
    [kind |-> kind, arg |-> arg,
     twice |-> lastNotification.kind = kind /\ lastNotification.arg = arg]

\* checkConnection resumes with the balance, or in its catch.
CheckConnectionBalance(ok, balance) ==
    /\ balanceRequest
    /\ balanceRequest' = FALSE
    /\ walletInfo' = IF ok THEN [walletInfo EXCEPT !.balance = formatBalance(balance)]
                     ELSE walletInfo
    /\ lastNotification' = NoNotification
    /\ UNCHANGED << isConnecting, error, walletVars, formVars, pageVars, storeVars, helperVars, listenerVars >>

\* The wallet emits accountsChanged(accounts).
AccountsChanged(accounts) ==
    /\ ethereum
    /\ walletInfo' = accountsChanged(walletInfo, accounts)
    /\ lastNotification' = Notified("accountsChanged", accounts)
    /\ UNCHANGED << isConnecting, error, balanceRequest, walletVars, formVars,
                    pageVars, storeVars, helperVars, listenerVars >>

\* The wallet emits chainChanged(chainId).
ChainChanged(chainId) ==
    /\ ethereum
    /\ walletInfo' = chainChanged(walletInfo, chainId)
    /\ lastNotification' = Notified("chainChanged", chainId)
    /\ UNCHANGED << isConnecting, error, balanceRequest, walletVars, formVars,
                    pageVars, storeVars, helperVars, listenerVars >>

\* handleConnect up to its first await (the button is shown while
\* disconnected and disabled while connecting).
HandleConnect ==
    /\ ~walletInfo.isConnected /\ ~isConnecting
    /\ isConnecting' = TRUE
    /\ error' = ""
    /\ lastNotification' = NoNotification
    /\ UNCHANGED << walletInfo, balanceRequest, walletVars, formVars, pageVars,
                    storeVars, helperVars, listenerVars >>

\* handleConnect resumes after connectWallet, eth_chainId and
\* eth_getBalance have answered, or in its catch.
HandleConnectSettles(ok, address, chainId, balance) ==
    /\ isConnecting
    /\ ok => ethereum
    /\ isConnecting' = FALSE
    /\ IF ok
       THEN /\ walletInfo' = Connected(address, chainId, formatBalance(balance))
            /\ signer' = TRUE
            /\ error' = error
       ELSE /\ walletInfo' = walletInfo
            /\ signer' = signer
            /\ error' = IF ethereum THEN "Failed to connect wallet"
                        ELSE "No Ethereum browser extension detected"
    /\ lastNotification' = NoNotification
    /\ UNCHANGED << balanceRequest, ethereum, contract, walletChain, checking,
                    networkError, formVars, pageVars, storeVars, helperVars, listenerVars >>

HandleDisconnect ==
    /\ walletInfo.isConnected
    /\ walletInfo' = Disconnected
    /\ lastNotification' = NoNotification
    /\ UNCHANGED << isConnecting, error, balanceRequest, walletVars, formVars,
                    pageVars, storeVars, helperVars, listenerVars >>

NextNetworkStatus ==
    \/ \E ok \in BOOLEAN, b \in BalanceInputs : CheckConnectionBalance(ok, b)
    \/ \E accounts \in AccountsInputs : AccountsChanged(accounts)
    \/ \E chainId \in ChainIdInputs : ChainChanged(chainId)
    \/ HandleConnect
    \/ \E ok \in BOOLEAN, a \in AccountInputs, c \in ChainIdInputs,
          b \in BalanceInputs : HandleConnectSettles(ok, a, c, b)
    \/ HandleDisconnect

SpecNetworkStatus == InitNetworkStatus /\ [][NextNetworkStatus]_vars

(***************************************************************************)
(* The two submissions up to their receipt, with the contract bound, for   *)
(* a wider choice of form values than the page specification draws.        *)
(***************************************************************************)
\* Withdrawal parameters: native, the form's default token, and a token
\* outside the table.
WithdrawParamsChecked ==
    WithdrawParamInputs \cup {[isEth |-> FALSE, token |-> WETH_ADDRESS]}

\* Valid amounts, with and without a fraction and with leading zeros.
AmountsChecked ==
    { <<"1","0",".","0">>, <<"1">>, <<"0",".","5">>, <<"1",".","2","5">>,
      <<"0","0","7">> }

\* Assets: table entries of 18 and of 6 decimals, in the table's letter
\* case and in lower case, and an address outside the table.
AssetsChecked ==
    { WETH_ADDRESS, WETH_LOWER, USDC_ADDRESS, ToLowerCase(USDT_ADDRESS),
      DAI_ADDRESS, OTHER_ADDRESS }

FlashLoanParamsChecked ==
    { [asset |-> as, amount |-> am] : as \in AssetsChecked, am \in AmountsChecked }

InitCalls ==
    /\ ethereum = TRUE /\ signer = TRUE /\ contract = TRUE
    /\ walletChain = BSC_CHAIN_ID /\ checking = 0 /\ networkError = "null"
    /\ flashLoanParams = [asset |-> WETH_ADDRESS, amount |-> << >>]
    /\ isLoading = [f \in Forms |-> FALSE]
    /\ pc = [f \in Forms |-> "idle"]
    /\ pendingTx = [f \in Forms |-> NoTx]
    /\ call = [f \in Forms |-> NoCall]
    /\ toast = [f \in Forms |-> "none"]
    /\ receipt = [f \in Forms |-> NoReceipt]
    /\ parsed = NotParsed
    /\ newTransactions = << >>
    /\ transactions = DemoTransactions
    /\ loading = FALSE
    /\ storage = NoItem
    /\ appended = [before |-> << >>, txs |-> << >>]
    /\ history = NotLoaded
    /\ InitStatus
    /\ InitHelpers
    /\ InitPageMounted

NextCalls ==
    \/ \E params \in FlashLoanParamsChecked, id \in IdSet :
          HandleSubmitFlashLoan(params, id)
    \/ \E params \in WithdrawParamsChecked, id \in IdSet :
          HandleSubmitWithdraw(params, id)
    \/ \E f \in Forms : ContractCallRejected(f)
    \/ \E f \in Forms, h \in TxHashes : ContractCallAccepted(f, h)
    \/ \E f \in Forms : WaitFails(f)

SpecCalls == InitCalls /\ [][NextCalls]_vars

(***************************************************************************)
(* The pure helpers of contractInteraction on their own: an amount is      *)
(* parsed as requestFlashLoan parses it and the integer is formatted back  *)
(* as parseFlashLoanEvents formats the logged amount; getTokenSymbol is    *)
(* applied to any address.                                                 *)
(***************************************************************************)
\* Amounts: whole numbers, fractions of up to seven places, leading and
\* trailing zeros, a missing whole or fractional part, and strings that are
\* no decimal numbers.  (handleSubmit lets no negative amount through.)
ScaleAmounts ==
    { <<"1">>, <<"1","0">>, <<"1","0",".","0">>, <<"1","0","0">>,
      <<"0",".","5">>, <<".","5">>, <<"1",".">>, <<"1",".","2","5">>,
      <<"1",".","5","0">>, <<"0","0","7">>, <<"0">>, <<"0",".","0">>,
      <<"0",".","0","5">>, <<"1","2",".","5">>,
      <<"0",".","0","0","0","0","0","1">>,
      <<"1",".","2","3","4","5","6","7">>,
      <<"1",".","2","3","4","5","6","7","8">>,
      << >>, <<".">>, <<"a","b","c">>, <<"1","e","3">>, <<"1",",","5">> }

\* Addresses: every table entry as the table writes it and in lower case,
\* addresses outside the table, and strings shorter than an address.
SymbolAddresses ==
    { CommonTokens[i].address : i \in 1..Len(CommonTokens) }
      \cup { ToLowerCase(CommonTokens[i].address) : i \in 1..Len(CommonTokens) }
      \cup { OTHER_ADDRESS, ToLowerCase(OTHER_ADDRESS), << >>,
             <<"E","T","H">>, <<"0","x","1","2">>,
             <<"0","x","1","2","3","4","5","6">> }

\* requestFlashLoan's parse of params.amount for params.asset, and
\* formatTokenAmount of the integer for the same asset.
scaleAmount(amount, asset) ==
    LET decimals == tokenDecimals(asset)
        p        == parseUnits(amount, decimals)
    IN  [called |-> TRUE, amount |-> amount, asset |-> asset,
         decimals |-> decimals, threw |-> p.threw, value |-> p.value,
         formatted |-> IF p.threw THEN << >>
                       ELSE formatTokenAmount(p.value, asset)]

ScaleAmount(amount, asset) ==
    /\ scaled' = scaleAmount(amount, asset)
    /\ UNCHANGED << resolved, listenerVars, walletVars, statusVars, formVars, pageVars, storeVars >>

ResolveSymbol(address) ==
    /\ resolved' = [called |-> TRUE, address |-> address,
                    symbol |-> getTokenSymbol(address)]
    /\ UNCHANGED << scaled, listenerVars, walletVars, statusVars, formVars, pageVars, storeVars >>

NextHelpers ==
    \/ \E amount \in ScaleAmounts, asset \in AssetsChecked : ScaleAmount(amount, asset)
    \/ \E address \in SymbolAddresses : ResolveSymbol(address)

SpecHelpers == InitCalls /\ [][NextHelpers]_vars

(***************************************************************************)
(* The page driven through its components only: the user connects and      *)
(* disconnects in NetworkStatus and submits the two forms.  No component   *)
(* calls initializeContract, so `contract` is never assigned and no        *)
(* submission gets as far as a contract call.                              *)
(***************************************************************************)
\* The answer to eth_chainId on chain `chain`, character by character.
ChainIdOf(chain) ==
    CASE chain = "0x38" -> <<"0","x","3","8">>
      [] chain = "0x61" -> <<"0","x","6","1">>
      [] OTHER          -> <<"0","x","1">>

NextComponents ==
    \/ LoadHistory
    \/ \E ok \in BOOLEAN : CheckNetworkSettles(ok)
    \/ \E ok \in BOOLEAN, b \in BalanceInputs : CheckConnectionBalance(ok, b)
    \/ HandleConnect
    \/ \E ok \in BOOLEAN, a \in AccountInputs, b \in BalanceInputs :
          HandleConnectSettles(ok, a, ChainIdOf(walletChain), b)
    \/ HandleDisconnect
    \/ \E params \in FlashLoanParamInputs, id \in IdSet :
          HandleSubmitFlashLoan(params, id)
    \/ \E params \in WithdrawParamInputs, id \in IdSet :
          HandleSubmitWithdraw(params, id)

SpecComponents == InitNetworkStatus /\ [][NextComponents]_vars

(***************************************************************************)
(* FlashLoanForm and NetworkStatus as components a parent mounts and       *)
(* unmounts in any order, while the wallet changes chain: the listeners    *)
(* they register on window.ethereum and the network checks they start.     *)
(***************************************************************************)
\* Mounts of one component in a behaviour.
MaxMounts == 2

\* checkNetwork calls of one FlashLoanForm awaiting the wallet at a time.
MaxChecking == 2

ChainsVisited == Chains \cup {BSC_TESTNET_CHAIN_ID}

\* window.ethereum.selectedAddress when NetworkStatus mounts.
SelectedAddressInputs == {"undefined"} \cup AccountInputs

InitUnmounted ==
    /\ ethereum \in BOOLEAN
    /\ signer = FALSE /\ contract = FALSE
    /\ walletChain \in Chains
    /\ checking = 0 /\ networkError = "null"
    /\ flashLoanParams = [asset |-> WETH_ADDRESS, amount |-> << >>]
    /\ isLoading = [f \in Forms |-> FALSE]
    /\ pc = [f \in Forms |-> "idle"]
    /\ pendingTx = [f \in Forms |-> NoTx]
    /\ call = [f \in Forms |-> NoCall]
    /\ toast = [f \in Forms |-> "none"]
    /\ receipt = [f \in Forms |-> NoReceipt]
    /\ parsed = NotParsed
    /\ newTransactions = << >>
    /\ transactions = DemoTransactions
    /\ loading = FALSE
    /\ storage = NoItem
    /\ appended = [before |-> << >>, txs |-> << >>]
    /\ history = NotLoaded
    /\ InitStatus
    /\ InitHelpers
    /\ mounted = [c \in Components |-> 0]
    /\ mounts = [c \in Components |-> 0]
    /\ listeners = NoListeners

\* FlashLoanForm mounts: fresh state, then its effect runs checkNetwork()
\* (up to its await, or to the end without a wallet) and registers the
\* chainChanged listener.
MountFlashLoanForm ==
    /\ mounted["FlashLoanForm"] = 0
    /\ mounts["FlashLoanForm"] < MaxMounts
    /\ mounts' = [mounts EXCEPT !["FlashLoanForm"] = @ + 1]
    /\ mounted' = [mounted EXCEPT !["FlashLoanForm"] = mounts'["FlashLoanForm"]]
    /\ checking' = IF ethereum THEN 1 ELSE 0
    /\ networkError' = IF ethereum THEN "null" ELSE "No Ethereum wallet detected"
    /\ listeners' = IF ethereum
                    THEN on(listeners, "chainChanged",
                            FormArrow(mounts'["FlashLoanForm"]))
                    ELSE listeners
    /\ UNCHANGED << ethereum, signer, contract, walletChain, formVars, pageVars,
                    storeVars, statusVars, helperVars >>

\* FlashLoanForm unmounts: the effect's cleanup runs and the state is
\* dropped (checkNetwork calls still in flight settle into nothing).
UnmountFlashLoanForm ==
    /\ mounted["FlashLoanForm"] # 0
    /\ mounted' = [mounted EXCEPT !["FlashLoanForm"] = 0]
    /\ listeners' = IF ethereum
                    THEN removeListener(listeners, "chainChanged",
                                        FormCheckNetwork(mounted["FlashLoanForm"]))
                    ELSE listeners
    /\ checking' = 0
    /\ networkError' = "null"
    /\ UNCHANGED << ethereum, signer, contract, walletChain, mounts, formVars,
                    pageVars, storeVars, statusVars, helperVars >>

\* NetworkStatus mounts: its effect runs checkConnection() up to its await
\* and registers its two listeners.
MountNetworkStatus(selectedAddress) ==
    /\ mounted["NetworkStatus"] = 0
    /\ mounts["NetworkStatus"] < MaxMounts
    /\ mounts' = [mounts EXCEPT !["NetworkStatus"] = @ + 1]
    /\ mounted' = [mounted EXCEPT !["NetworkStatus"] = mounts'["NetworkStatus"]]
    /\ IF ethereum /\ selectedAddress # "undefined"
       THEN /\ walletInfo' = Connected(selectedAddress, ChainIdOf(walletChain), "0")
            /\ balanceRequest' = TRUE
       ELSE /\ walletInfo' = Disconnected
            /\ balanceRequest' = FALSE
    /\ listeners' = IF ethereum
                    THEN registerStatusListeners(listeners, mounts'["NetworkStatus"])
                    ELSE listeners
    /\ lastNotification' = NoNotification
    /\ UNCHANGED << isConnecting, error, walletVars, formVars, pageVars, storeVars,
                    helperVars >>

\* NetworkStatus unmounts: the effect's cleanup runs and the state is dropped.
UnmountNetworkStatus ==
    /\ mounted["NetworkStatus"] # 0
    /\ mounted' = [mounted EXCEPT !["NetworkStatus"] = 0]
    /\ listeners' = IF ethereum
                    THEN removeAllListeners(
                            removeAllListeners(listeners, "accountsChanged"),
                            "chainChanged")
                    ELSE listeners
    /\ walletInfo' = Disconnected
    /\ balanceRequest' = FALSE
    /\ lastNotification' = NoNotification
    /\ UNCHANGED << isConnecting, error, mounts, walletVars, formVars, pageVars,
                    storeVars, helperVars >>

\* The chainChanged listeners registered by the mounted instance of a
\* component (a listener of an unmounted instance sets state of a component
\* that is gone, which changes nothing).
LiveListeners(component) ==
    {i \in 1..Len(listeners["chainChanged"]) :
        /\ listeners["chainChanged"][i].component = component
        /\ listeners["chainChanged"][i].gen = mounted[component]}

\* The wallet moves to another chain and emits chainChanged: every
\* registered listener runs.  FlashLoanForm's starts a checkNetwork call,
\* NetworkStatus' updates walletInfo.
WalletChainChanged(chain) ==
    /\ ethereum
    /\ chain # walletChain
    /\ checking + Cardinality(LiveListeners("FlashLoanForm")) <= MaxChecking
    /\ walletChain' = chain
    /\ checking' = checking + Cardinality(LiveListeners("FlashLoanForm"))
    /\ walletInfo' = IF LiveListeners("NetworkStatus") # {}
                     THEN chainChanged(walletInfo, ChainIdOf(chain))
                     ELSE walletInfo
    /\ lastNotification' = Notified("chainChanged", ChainIdOf(chain))
    /\ UNCHANGED << ethereum, signer, contract, networkError, isConnecting, error,
                    balanceRequest, formVars, pageVars, storeVars, helperVars,
                    listenerVars >>

NextListeners ==
    \/ MountFlashLoanForm
    \/ UnmountFlashLoanForm
    \/ \E a \in SelectedAddressInputs : MountNetworkStatus(a)
    \/ UnmountNetworkStatus
    \/ \E chain \in ChainsVisited : WalletChainChanged(chain)
    \/ \E ok \in BOOLEAN : CheckNetworkSettles(ok)
    \/ \E ok \in BOOLEAN, b \in BalanceInputs : CheckConnectionBalance(ok, b)

SpecListeners == InitUnmounted /\ [][NextListeners]_vars

(***************************************************************************)
(* Properties.                                                             *)
(***************************************************************************)
Terminal == {"success", "failed"}

\* C1: after saveTransaction calls on any stored list, the stored list is the
\* first KeepLast (50) records of: the appended records, newest first,
\* followed by the list stored before; so it never holds more than 50.
C1_KeepsLast50 ==
    /\ storage.present => Len(storage.json) <= 50
    /\ Len(appended.txs) > 0 =>
          LET all == appended.txs \o appended.before
          IN  /\ storage.present
              /\ storage.json = SubSeq(all, 1, IF Len(all) < 50 THEN Len(all) ELSE 50)

\* Records were appended to a full list: the oldest ones have been evicted.
C1_Witness ==
    /\ Len(appended.before) = 50
    /\ Len(appended.txs) >= 2
    /\ storage.json[1] = appended.txs[1]
    /\ storage.json[50] = appended.before[50 - Len(appended.txs)]

\* The form whose submission was delivered to the page in this step.
Delivered(f) ==
    /\ pc[f] # "idle" /\ pc'[f] = "idle"
    /\ Len(newTransactions') = Len(newTransactions) + 1

\* C2: a record made by requestFlashLoan or withdrawToken starts pending,
\* and once its status is success or failed it keeps that status: while the
\* call runs, when the record is handed to the page, and in the page's lists.
C2_StatusOnce ==
    [][ /\ \A f \in Forms :
            /\ (pendingTx[f] = NoTx /\ pendingTx'[f] # NoTx)
                  => pendingTx'[f].status = "pending"
            /\ (pendingTx[f] # NoTx /\ pendingTx'[f] # NoTx
                  /\ pendingTx[f].status \in Terminal)
                  => pendingTx'[f].status = pendingTx[f].status
            /\ (Delivered(f) /\ pendingTx[f].status \in Terminal)
                  => newTransactions'[1].status = pendingTx[f].status
        /\ \A k \in 1..Len(newTransactions) :
              /\ Len(newTransactions') >= Len(newTransactions)
              /\ newTransactions'[Len(newTransactions') - k + 1]
                    = newTransactions[Len(newTransactions) - k + 1]
      ]_vars

\* A submission ended failed, another one threw.
C2_Witness ==
    /\ Len(newTransactions) > 0
    /\ newTransactions[1].status = "failed"
    /\ \E f \in Forms : toast[f] = FailedTitle(f)

\* C3: while a submitted flash loan awaits its receipt, the displayed
\* history holds its record, in status pending.
C3_PendingShown ==
    pc["flashloan"] = "waiting" =>
        \E i \in 1..Len(transactions) :
            /\ transactions[i] = pendingTx["flashloan"]
            /\ transactions[i].status = "pending"

\* C4: after a flash loan was confirmed successfully, every record decoded
\* from its receipt is in the displayed history.
C4_DecodedRecordsShown ==
    (parsed.called /\ toast["flashloan"] = "Flash Loan Requested") =>
        \A i \in 1..Len(parsed.transactions) :
            \E j \in 1..Len(transactions) : transactions[j] = parsed.transactions[i]

\* C5: every record that reached a terminal status is in the stored list, so
\* a later getTransactionHistory returns a list containing it.
C5_TerminalPersisted ==
    \A i \in 1..Len(newTransactions) :
        newTransactions[i].status \in Terminal =>
            /\ storage.present
            /\ \E j \in 1..Len(getTransactionHistory(storage)) :
                  getTransactionHistory(storage)[j] = newTransactions[i]

\* A string that reads as a decimal number: an optional sign, digits with at
\* most one point and at least one digit, and an optional exponent.
NumericString(str) ==
    LET signed   == Len(str) > 0 /\ str[1] \in {"-", "+"}
        body     == IF signed THEN Tail(str) ELSE str
        epos     == {i \in 1..Len(body) : body[i] \in {"e", "E"}}
        mantissa == IF epos = {} THEN body ELSE SubSeq(body, 1, MinSet(epos) - 1)
        expo     == IF epos = {} THEN << >>
                    ELSE SubSeq(body, MinSet(epos) + 1, Len(body))
        expoBody == IF Len(expo) > 0 /\ expo[1] \in {"-", "+"} THEN Tail(expo) ELSE expo
    IN  /\ \A i \in 1..Len(mantissa) : mantissa[i] \in Digits \cup {"."}
        /\ Cardinality({i \in 1..Len(mantissa) : mantissa[i] = "."}) <= 1
        /\ \E i \in 1..Len(mantissa) : mantissa[i] \in Digits
        /\ epos # {} => /\ Len(expoBody) > 0
                        /\ \A i \in 1..Len(expoBody) : expoBody[i] \in Digits

\* The amounts the claim is about: "0" and the strings that are no number.
BadAmount(str) == str = <<"0">> \/ ~NumericString(str)

\* C6: a flash loan submitted with amount "0" or a non-numeric string is
\* rejected: the form is idle again with an error toast, no contract call
\* was made for it, and no record with such an amount is in flight or was
\* delivered to the page.
C6_BadAmountRejected ==
    /\ (flashLoanParams.amount # << >> /\ BadAmount(flashLoanParams.amount)) =>
          /\ pc["flashloan"] = "idle"
          /\ call["flashloan"] = NoCall
          /\ pendingTx["flashloan"] = NoTx
          /\ toast["flashloan"] \in {"Invalid amount", "Flash Loan Failed"}
    /\ pendingTx["flashloan"] # NoTx => ~BadAmount(pendingTx["flashloan"].amount)
    /\ \A i \in 1..Len(newTransactions) :
          newTransactions[i].type = "flashloan" => ~BadAmount(newTransactions[i].amount)

\* A non-numeric amount that passes the form's parseFloat check was
\* submitted with the contract bound, and was rejected.
C6_Witness ==
    /\ contract
    /\ flashLoanParams.amount = <<"1","0","a">>
    /\ toast["flashloan"] = "Flash Loan Failed"
    /\ newTransactions = << >>

\* The record type each known event is decoded to.
EventType(name) ==
    CASE name = "FlashLoanInitiated" -> "flashloan"
      [] name = "SwapExecuted" -> "swap"
      [] name = "FlashLoanRepaid" -> "repay"

\* C7: parseFlashLoanEvents returns, in log order, exactly one record per
\* log that decodes to a known event and none for the other logs, each with
\* status success and the receipt's hash; a log that is unrecognized or
\* fails to decode does not stop the logs after it from being decoded.
C7_OneRecordPerKnownLog ==
    parsed.called =>
        LET logs  == receipt["flashloan"].logs
            known == {i \in 1..Len(logs) : logs[i].kind = "event"}
            out   == parsed.transactions
        IN  /\ ~parsed.threw
            /\ Len(out) = Cardinality(known)
            /\ \A i \in known :
                  LET k == Cardinality({j \in known : j <= i})
                  IN  /\ out[k].type = EventType(logs[i].name)
                      /\ out[k].status = "success"
                      /\ out[k].hash = receipt["flashloan"].hash

\* An unrecognized log followed by a SwapExecuted log gave one swap record.
C7_Witness ==
    /\ parsed.called
    /\ Len(receipt["flashloan"].logs) = 2
    /\ receipt["flashloan"].logs[1] = UnrecognizedLog
    /\ receipt["flashloan"].logs[2].name = "SwapExecuted"
    /\ Len(parsed.transactions) = 1
    /\ parsed.transactions[1].type = "swap"

\* C8: when the receipt of a flash loan reports success and one of its logs
\* fails to decode, requestFlashLoan still returns its record with status
\* success: the form reports the request and the page receives the record.
C8_DecodeErrorKeepsSuccess ==
    (/\ receipt["flashloan"].status = 1
     /\ \E i \in 1..Len(receipt["flashloan"].logs) :
           receipt["flashloan"].logs[i].kind = "malformed") =>
        /\ pc["flashloan"] = "idle"
        /\ toast["flashloan"] = "Flash Loan Requested"
        /\ \E i \in 1..Len(newTransactions) :
              /\ newTransactions[i].type = "flashloan"
              /\ newTransactions[i].status = "success"
              /\ newTransactions[i].hash = receipt["flashloan"].hash

C8_Witness ==
    /\ receipt["flashloan"].status = 1
    /\ receipt["flashloan"].logs = <<MalformedLog>>
    /\ parsed.called
    /\ newTransactions # << >>
    /\ newTransactions[1].status = "success"

\* C9: no two records produced by submissions share an id.
C9_UniqueIds ==
    \A i, j \in 1..Len(newTransactions) :
        i # j => newTransactions[i].id # newTransactions[j].id

\* C10: getTransactionHistory returns the three demo records (demo1, demo2,
\* demo3; flashloan, swap, withdrawal; all success) when nothing is stored,
\* and the stored list, holding none of the demo records, otherwise.
C10_LoadResult ==
    history.called =>
        IF ~history.from.present
        THEN /\ Len(history.result) = 3
             /\ [i \in 1..3 |-> history.result[i].id] = <<"demo1", "demo2", "demo3">>
             /\ [i \in 1..3 |-> history.result[i].type]
                   = <<"flashloan", "swap", "withdrawal">>
             /\ \A i \in 1..3 : history.result[i].status = "success"
        ELSE /\ history.result = history.from.json
             /\ \A i \in 1..Len(history.result) :
                   history.result[i].id \notin {"demo1", "demo2", "demo3"}

\* A load with nothing stored.
C10_Witness ==
    /\ history.called
    /\ ~history.from.present
    /\ Len(history.result) = 3

\* C11: whatever loads and appends have happened, the stored list holds no
\* demo record: none of its records has id demo1, demo2 or demo3.
C11_DemoNeverStored ==
    storage.present =>
        \A i \in 1..Len(storage.json) : storage.json[i].id \notin DemoIds

\* Nothing was stored, a load returned the demo records, and a record was
\* appended afterwards.
C11_Witness ==
    /\ history.called
    /\ ~history.from.present
    /\ history.result = DemoTransactions
    /\ Len(appended.txs) > 0
    /\ storage.present
    /\ Len(storage.json) = Len(appended.txs)

\* C12: when tx.wait() fails after the contract call was accepted, the
\* record made for the call, with its hash and in status pending, is in the
\* displayed history afterwards.
C12_WaitFailureKeepsPending ==
    [][ \A f \in Forms :
          (pc[f] = "waiting" /\ pc'[f] = "idle" /\ toast'[f] = FailedTitle(f)) =>
              \E i \in 1..Len(transactions') :
                  /\ transactions'[i].id = pendingTx[f].id
                  /\ transactions'[i].hash = pendingTx[f].hash
                  /\ transactions'[i].status = "pending"
      ]_vars

\* C13: when a submission fails before a transaction hash is obtained (the
\* contract is not bound, the amount does not scale, or the contract call
\* is rejected), the form shows the failure, no record of the call is left
\* or delivered, and the displayed and the stored history do not change.
C13_FailureBeforeHashLeavesHistory ==
    [][ \A f \in Forms :
          (\/ pc[f] = "submitting" /\ pc'[f] = "idle"
           \/ /\ pc[f] = "idle" /\ pc'[f] = "idle"
              /\ toast[f] # FailedTitle(f) /\ toast'[f] = FailedTitle(f)) =>
              /\ toast'[f] = FailedTitle(f)
              /\ pendingTx'[f] = NoTx
              /\ call'[f] = NoCall
              /\ newTransactions' = newTransactions
              /\ transactions' = transactions
              /\ storage' = storage
      ]_vars

\* With the contract bound, a withdrawal failed and nothing was delivered.
C13_Witness ==
    /\ contract
    /\ toast["withdrawal"] = "Withdrawal Failed"
    /\ pc["withdrawal"] = "idle"
    /\ newTransactions = << >>
    /\ transactions = DemoTransactions

\* C14: without a wallet provider there is no signer and no contract, and
\* while no contract is bound no submission gets past its first check: no
\* record is created, no contract call is made, nothing is reported as
\* requested and nothing is delivered to the page.
C14_NoWalletNoContractNoRecord ==
    /\ ~ethereum => ~signer /\ ~contract
    /\ ~contract =>
          /\ \A f \in Forms :
                /\ pc[f] = "idle"
                /\ pendingTx[f] = NoTx
                /\ call[f] = NoCall
                /\ toast[f] # RequestedTitle(f)
          /\ newTransactions = << >>

\* A valid flash loan was submitted with no contract bound and failed.
C14_Witness ==
    /\ ~contract
    /\ flashLoanParams.amount = <<"1","0",".","0">>
    /\ toast["flashloan"] = "Flash Loan Failed"
    /\ toast["withdrawal"] = "Withdrawal Failed"

\* C15: while the wallet is on a chain outside the supported set, neither
\* form has a record or a contract call of a submission.
C15_WrongChainNoSubmission ==
    walletChain \notin SUPPORTED_CHAIN_IDS =>
        \A f \in Forms : pendingTx[f] = NoTx /\ call[f] = NoCall

\* C16: a record in flight is pending, and carries a hash exactly from the
\* moment its call was accepted; a delivered record is terminal and carries
\* its hash; and the record delivered for a receipt has that receipt's hash
\* and is success if the receipt's status is 1 and failed otherwise.
C16_StatusFromReceipt ==
    /\ \A f \in Forms :
          pendingTx[f] # NoTx =>
              /\ pendingTx[f].status = "pending"
              /\ pc[f] = "waiting" <=> "hash" \in DOMAIN pendingTx[f]
    /\ \A i \in 1..Len(newTransactions) :
          /\ newTransactions[i].status \in Terminal
          /\ "hash" \in DOMAIN newTransactions[i]
    /\ \A f \in Forms :
          receipt[f] # NoReceipt =>
              \E i \in 1..Len(newTransactions) :
                  /\ newTransactions[i].type = f
                  /\ \A j \in 1..(i - 1) : newTransactions[j].type # f
                  /\ newTransactions[i].hash = receipt[f].hash
                  /\ newTransactions[i].status =
                        IF receipt[f].status = 1 THEN "success" ELSE "failed"

\* A withdrawal was confirmed with status 0 and delivered as failed while
\* a flash loan, accepted, still awaits its receipt.
C16_Witness ==
    /\ receipt["withdrawal"].status = 0
    /\ newTransactions # << >>
    /\ newTransactions[1].type = "withdrawal"
    /\ newTransactions[1].status = "failed"
    /\ pc["flashloan"] = "waiting"
    /\ pendingTx["flashloan"].status = "pending"

\* C17: when one form's submission is delivered, the other form's
\* submission is untouched (its record, its position, its receipt), the
\* delivered record is that form's own record put in front of the records
\* delivered before, none of which is lost, and every delivered record is in
\* the displayed history.
C17_IndependentSubmissions ==
    [][ \A f \in Forms :
          (pc[f] = "waiting" /\ pc'[f] = "idle" /\ toast'[f] = RequestedTitle(f)) =>
              /\ \A g \in Forms \ {f} :
                    /\ pendingTx'[g] = pendingTx[g]
                    /\ pc'[g] = pc[g]
                    /\ receipt'[g] = receipt[g]
              /\ Tail(newTransactions') = newTransactions
              /\ newTransactions'[1].type = f
              /\ newTransactions'[1].id = pendingTx[f].id
              /\ newTransactions'[1].hash = pendingTx[f].hash
              /\ \A k \in 1..Len(newTransactions') :
                    \E j \in 1..Len(transactions') :
                        transactions'[j] = newTransactions'[k]
      ]_vars

\* Both forms delivered a record, with different outcomes.
C17_Witness ==
    /\ Len(newTransactions) = 2
    /\ newTransactions[1].type = "withdrawal"
    /\ newTransactions[1].status = "success"
    /\ newTransactions[2].type = "flashloan"
    /\ newTransactions[2].status = "failed"
    /\ receipt["withdrawal"] # NoReceipt
    /\ receipt["flashloan"] # NoReceipt

\* C18: a notification that repeats the one delivered just before it leaves
\* walletInfo as the first delivery left it, and an accountsChanged that
\* carries the address walletInfo already holds as connected leaves
\* walletInfo as it is.
C18_NotificationsIdempotent ==
    [][ /\ lastNotification'.twice => walletInfo' = walletInfo
        /\ (/\ lastNotification'.kind = "accountsChanged"
            /\ walletInfo.isConnected
            /\ lastNotification'.arg = <<walletInfo.address>>) =>
              walletInfo' = walletInfo
      ]_vars

\* The same account was notified twice in a row to a connected widget that
\* shows a chain.
C18_Witness ==
    /\ lastNotification.kind = "accountsChanged"
    /\ lastNotification.twice
    /\ walletInfo.isConnected
    /\ lastNotification.arg = <<walletInfo.address>>
    /\ walletInfo.chainId = <<"5","6">>

\* The label a withdrawal of token `token` is to carry: WETH for the WETH
\* address, and for an address outside the token table its first 6
\* characters, "..." and its last 4 characters.
ExpectedLabel(token) ==
    IF token = WETH_ADDRESS THEN <<"W","E","T","H">>
    ELSE SubSeq(token, 1, 6) \o <<".",".",".">> \o SubSeq(token, Len(token) - 3, Len(token))

\* C19: a withdrawal makes one contract call, withdrawETH() when isEth is
\* set and withdrawToken(token) otherwise, and its record has type
\* withdrawal, no amount, and asset ETH when isEth is set and the token's
\* label otherwise.
C19_WithdrawEntryPoint ==
    /\ contract =>
          \A params \in WithdrawParamsChecked, id \in IdSet :
              LET started == withdrawTokenStart(params, id)
              IN  /\ ~started.threw
                  /\ started.call =
                        IF params.isEth THEN [method |-> "withdrawETH"]
                        ELSE [method |-> "withdrawToken", token |-> params.token]
                  /\ started.pendingTx.type = "withdrawal"
                  /\ "amount" \notin DOMAIN started.pendingTx
                  /\ started.pendingTx.asset =
                        IF params.isEth THEN <<"E","T","H">>
                        ELSE ExpectedLabel(params.token)
    /\ pendingTx["withdrawal"] # NoTx =>
          /\ pendingTx["withdrawal"].type = "withdrawal"
          /\ "amount" \notin DOMAIN pendingTx["withdrawal"]
          /\ call["withdrawal"].method \in {"withdrawETH", "withdrawToken"}
          /\ call["withdrawal"].method = "withdrawETH" =>
                /\ DOMAIN call["withdrawal"] = {"method"}
                /\ pendingTx["withdrawal"].asset = <<"E","T","H">>
          /\ call["withdrawal"].method = "withdrawToken" =>
                pendingTx["withdrawal"].asset = ExpectedLabel(call["withdrawal"].token)

\* A withdrawal of the default token, WETH, was accepted by the contract.
C19_Witness ==
    /\ pc["withdrawal"] = "waiting"
    /\ call["withdrawal"] = [method |-> "withdrawToken", token |-> WETH_ADDRESS]
    /\ pendingTx["withdrawal"].asset = <<"W","E","T","H">>

\* The decimals of an asset as the token table gives them, whatever the
\* letter case of the address: 6 for USDC and USDT, 18 for the other
\* entries and for unknown addresses.
ExpectedDecimals(asset) ==
    IF ToLowerCase(asset) \in {ToLowerCase(USDC_ADDRESS), ToLowerCase(USDT_ADDRESS)}
    THEN 6 ELSE 18

\* amount * 10^decimals for a decimal string digits[.digits] with at most
\* `decimals` fractional digits: the digits with the point moved `decimals`
\* places to the right, without leading zeros.
TimesPow10(amount, decimals) ==
    LET points == {i \in 1..Len(amount) : amount[i] = "."}
        point  == IF points = {} THEN Len(amount) + 1 ELSE MinSet(points)
        whole  == SubSeq(amount, 1, point - 1)
        frac   == SubSeq(amount, point + 1, Len(amount))
    IN  StripLeadingZeros(whole \o frac \o Zeros(decimals - Len(frac)))

\* C20: the amount requestFlashLoan passes to the contract is
\* amount * 10^decimals, with the decimals of the asset's entry in the token
\* table (found whatever the letter case) or 18 for an unknown asset;
\* "10.0" of WETH is passed as 10 * 10^18 and its record's asset is WETH.
C20_AmountScaled ==
    call["flashloan"] # NoCall =>
        /\ call["flashloan"].method = "requestFlashLoan"
        /\ call["flashloan"].asset = flashLoanParams.asset
        /\ ~call["flashloan"].negative
        /\ call["flashloan"].amount =
              TimesPow10(flashLoanParams.amount,
                         ExpectedDecimals(flashLoanParams.asset))
        /\ pendingTx["flashloan"].amount = flashLoanParams.amount
        /\ pendingTx["flashloan"].status = "pending"
        /\ flashLoanParams = [asset |-> WETH_ADDRESS, amount |-> <<"1","0",".","0">>] =>
              /\ call["flashloan"].amount = <<"1","0">> \o Zeros(18)
              /\ pendingTx["flashloan"].asset = <<"W","E","T","H">>

\* A flash loan of 1.25 of USDT, its address in lower case, is in flight
\* with 1250000 passed.
C20_Witness ==
    /\ pc["flashloan"] = "submitting"
    /\ call["flashloan"].asset = ToLowerCase(USDT_ADDRESS)
    /\ pendingTx["flashloan"].amount = <<"1",".","2","5">>
    /\ call["flashloan"].amount = <<"1","2","5","0","0","0","0">>

\* The value of a digit string.
RECURSIVE DigitsToInt(_)
DigitsToInt(s) ==
    IF s = << >> THEN 0
    ELSE DigitsToInt(SubSeq(s, 1, Len(s) - 1)) * 10
           + (CHOOSE n \in 0..9 : Digits10(n) = s[Len(s)])

\* The number a decimal string of at most 7 fractional digits denotes, in
\* units of 10^-7.
DecimalValue(s) ==
    LET wlen  == DigitPrefixLen(s)
        rest  == SubSeq(s, wlen + 1, Len(s))
        frac  == IF Len(rest) > 0 THEN Tail(rest) ELSE << >>
    IN  DigitsToInt(SubSeq(s, 1, wlen) \o frac \o Zeros(7 - Len(frac)))

\* formatUnits' way of writing a number: a whole part without leading
\* zeros, a point, and a fraction without trailing zeros, of at least one
\* digit each.
CanonicalAmount(s) ==
    \E w \in 1..Len(s) :
       /\ w + 2 <= Len(s) /\ s[w + 1] = "."
       /\ \A i \in 1..Len(s) : i # w + 1 => s[i] \in Digits
       /\ w > 1 => s[1] # "0"
       /\ Len(s) > w + 2 => s[Len(s)] # "0"

\* C21 (as amended): for every amount string parseUnits accepts for the
\* token's decimals, formatting the parsed integer back with the same
\* token's decimals gives a string that denotes the same number, without
\* rounding, written in canonical form; it is the original string exactly
\* when the original was already written that way.
C21_RoundTripValue ==
    (scaled.called /\ ~scaled.threw) =>
        /\ DecimalValue(scaled.formatted) = DecimalValue(scaled.amount)
        /\ CanonicalAmount(scaled.formatted)
        /\ (scaled.formatted = scaled.amount) <=> CanonicalAmount(scaled.amount)

\* A fraction shorter than the token's decimals came back unchanged in value.
C21_Witness ==
    /\ scaled.called /\ ~scaled.threw
    /\ scaled.amount = <<"0",".","0","5">>
    /\ scaled.decimals = 18
    /\ scaled.formatted = scaled.amount

\* C21 as stated: the formatted string is the original amount string.
C21_RoundTripExact ==
    (scaled.called /\ ~scaled.threw) => scaled.formatted = scaled.amount

\* C22: getTokenSymbol returns the configured symbol of every table address
\* whatever its letter case, and for any other address its first 6
\* characters, "...", and its last 4 characters.
C22_SymbolResolved ==
    resolved.called =>
        LET address == resolved.address
            n       == Len(address)
            inTable == \E i \in 1..Len(CommonTokens) :
                          ToLowerCase(CommonTokens[i].address) = ToLowerCase(address)
        IN  /\ \A i \in 1..Len(CommonTokens) :
                  ToLowerCase(CommonTokens[i].address) = ToLowerCase(address) =>
                      resolved.symbol = CommonTokens[i].symbol
            /\ ~inTable =>
                  resolved.symbol =
                      SubSeq(address, 1, IF n < 6 THEN n ELSE 6)
                        \o <<".", ".", ".">>
                        \o SubSeq(address, IF n < 4 THEN 1 ELSE n - 3, n)

\* A table address written in lower case resolved to its symbol.
C22_Witness ==
    /\ resolved.called
    /\ resolved.address = ToLowerCase(USDT_ADDRESS)
    /\ resolved.address # USDT_ADDRESS
    /\ resolved.symbol = <<"U","S","D","T">>

\* C24: every record pushed through onTxAdded appears exactly once in the
\* displayed list, and the pushed records come first, newest first, ahead of
\* the loaded ones.  (Stated for pushed records whose ids differ from each
\* other and from the loaded records' ids.)
C24_PushedShownOnce ==
    LET n == Len(newTransactions)
        distinct ==
            /\ \A i, j \in 1..n : newTransactions[i].id = newTransactions[j].id => i = j
            /\ \A i \in 1..n : newTransactions[i].id \notin DemoIds
    IN  (~loading /\ distinct) =>
            /\ \A i \in 1..n :
                  Cardinality({j \in 1..Len(transactions) :
                                  transactions[j].id = newTransactions[i].id}) = 1
            /\ SubSeq(transactions, 1, n) = newTransactions

C23_ConnectedSubmitReachesCall ==
    [][ (/\ walletInfo.isConnected /\ signer
         /\ walletChain \in SUPPORTED_CHAIN_IDS /\ networkError = "null"
         /\ pc["flashloan"] = "idle"
         /\ flashLoanParams.amount = << >>
         /\ flashLoanParams' = [asset |-> WETH_ADDRESS, amount |-> <<"1","0",".","0">>])
        => /\ pc'["flashloan"] = "submitting"
           /\ call'["flashloan"] # NoCall
           /\ pendingTx'["flashloan"] # NoTx
           /\ pendingTx'["flashloan"].status = "pending"
      ]_vars

\* C26: FlashLoanForm's networkError follows the wallet's chain, so that a
\* flash loan is submitted only while the wallet is on a supported chain:
\* with no checkNetwork call in flight, networkError is null only on a
\* supported chain, and no submission starts on an unsupported chain, not
\* even before the first check has completed.
C26_NetworkErrorTracksChain ==
    [][ /\ (checking' = 0 /\ networkError' = "null")
              => walletChain' \in SUPPORTED_CHAIN_IDS
        /\ (pc["flashloan"] = "idle" /\ pc'["flashloan"] = "submitting")
              => walletChain \in SUPPORTED_CHAIN_IDS
      ]_vars

\* C27: the chainChanged listeners FlashLoanForm has registered on the
\* wallet are as many as its mounted instances: one while it is mounted on
\* a page with a wallet, none after it has unmounted.
C27_NoLeakedListener ==
    Cardinality({i \in 1..Len(listeners["chainChanged"]) :
                    listeners["chainChanged"][i].component = "FlashLoanForm"})
      = IF ethereum /\ mounted["FlashLoanForm"] # 0 THEN 1 ELSE 0

\* C28: a NetworkStatus unmount leaves the listeners of FlashLoanForm in
\* place, so that a mounted FlashLoanForm still has its chainChanged
\* listener afterwards.
C28_UnmountKeepsOthers ==
    [][ (mounted["NetworkStatus"] # 0 /\ mounted'["NetworkStatus"] = 0) =>
           /\ SelectSeq(listeners'["chainChanged"],
                        LAMBDA l : l.component = "FlashLoanForm")
                = SelectSeq(listeners["chainChanged"],
                            LAMBDA l : l.component = "FlashLoanForm")
           /\ (ethereum /\ mounted["FlashLoanForm"] # 0) =>
                 \E i \in 1..Len(listeners'["chainChanged"]) :
                    listeners'["chainChanged"][i] = FormArrow(mounted["FlashLoanForm"])
      ]_vars

\* C29: walletInfo is consistent in every state of NetworkStatus: when
\* isConnected it holds a non-empty address and a non-empty chainId whose
\* network info it shows, and when not isConnected its address and chainId
\* are empty.
C29_WalletInfoConsistent ==
    /\ walletInfo.isConnected =>
          /\ walletInfo.address # ""
          /\ walletInfo.chainId # << >>
          /\ walletInfo.network = getNetworkInfo(walletInfo.chainId)
    /\ ~walletInfo.isConnected =>
          /\ walletInfo.address = ""
          /\ walletInfo.chainId = << >>

\* C30: in both forms isLoading is true exactly while a submission of that
\* form is in flight: from the start of the contract operation until it has
\* settled, by returning a record or by throwing.  (The submit button is
\* disabled while isLoading, so no second submission of the form starts
\* meanwhile.)
C30_LoadingWhileInFlight ==
    \A f \in Forms : isLoading[f] <=> pc[f] # "idle"

\* One form has settled by a throw and is enabled again while the other
\* one, which already delivered a record, is in flight once more.
C30_Witness ==
    \E f, g \in Forms :
       /\ f # g
       /\ toast[f] = FailedTitle(f) /\ pc[f] = "idle" /\ ~isLoading[f]
       /\ toast[g] = RequestedTitle(g) /\ pc[g] = "waiting" /\ isLoading[g]

====
